---- MODULE Spec2Model ----
\* State-machine model of the claw-dashboard refresh/render pipeline
\* (src/index.js, class Dashboard and its helper functions).
\*
\* Conventions
\*   NULL, Some(v)   a nullable JavaScript value: NULL is null / undefined,
\*                   Some(v) is the value v, read back with Val
\*   rates (TPS)     kept in tenths: the integer 52 stands for 5.2
\*   await points    every `await` of refresh() is a separate step; the code
\*                   between two awaits runs atomically (single-threaded JS)
EXTENDS Integers, Sequences, FiniteSets, TLC

NULL == <<>>
Some(v) == <<v>>
Val(x) == x[1]

\* ---------------------------------------------------------------- constants
DEFAULT_REFRESH_INTERVAL == 2000
HISTORY_LENGTH == 60
NETWORK_HISTORY_LENGTH == 30
MinElapsedMs == 100

DEFAULT_SETTINGS ==
  [refreshInterval |-> DEFAULT_REFRESH_INTERVAL,
   showNetwork |-> TRUE, showGPU |-> TRUE, showDisk |-> TRUE,
   colorScheme |-> "default"]

\* ------------------------------------------------------------------- bounds
MaxTicks == 2        \* refresh() invocations in one behaviour
MaxToggles == 1      \* settings selections in one behaviour
MaxAdvances == 1     \* clock advances in one behaviour
MaxSeqTicks == 3     \* refresh() invocations, sequential specification
MaxSeqAdvances == 2  \* clock advances, sequential specification
MaxStatusTicks == 4  \* refresh() invocations, status specification
MaxPushes == 62      \* updateHistory calls, history-buffer specification
MaxNetPushes == 32   \* network pushes, history-buffer specification
MaxCycle == 4        \* toggles of the refresh interval, interval specification
MaxChunks == 3       \* 'data' events of one HTTPS response, version specification

\* ------------------------------------------------------- environment inputs
StartTime == 5000                       \* Date.now() at construction
Session(k, n) == [key |-> k, totalTokens |-> Some(n)]
Keys == {"a"}                           \* session keys the runtime reports

\* what each awaited source can deliver; k = "fail" is a rejected promise
\* (command error, timeout, unparsable output)
Fail == [k |-> "fail"]
CpuOk(l, m) == [k |-> "ok", load |-> l, mem |-> m]
DiskOk(p) == [k |-> "ok", percent |-> p]
Empty == [k |-> "empty"]
NetOk(i, rx, tx) == [k |-> "ok", iface |-> i, rx_bytes |-> rx, tx_bytes |-> tx]
LogsOk(l) == [k |-> "ok", lines |-> l]
\* `openclaw status --json` parsed; recent = NULL is a document without
\* sessions.recent
StatusDoc(r, a) == [k |-> "ok", reachable |-> TRUE, recent |-> r, agents |-> a]
DocWith(n) == StatusDoc(Some(<<Session("a", n)>>), <<"main">>)
DocEmpty == StatusDoc(Some(<<>>), <<>>)
DocBare == StatusDoc(NULL, <<>>)

\* --------------------------------------------------------------- variables
VARIABLES
  clock,        \* Date.now()
  alive,        \* the process is running
  started,      \* start() has run (the 500 ms timeout of init fired)
  settings,     \* this.settings
  timer,        \* this.timer: id of the interval stored last, or NULL
  timers,       \* live intervals: set of [id, period]
  nextTimer,    \* next interval id
  history,      \* this.history
  data,         \* this.data
  prev,         \* this.prev
  lastTime,     \* this.lastTime
  logLines,     \* this.logLines
  lastNetStats, \* this.lastNetStats
  lastNetTime,  \* this.lastNetTime
  ticks,        \* refresh() invocations in flight: sequence of frames
  calls,        \* number of refresh() invocations so far
  w,            \* widget contents set by the last render()
  pushed,       \* observer: every value pushed to each history buffer
  lastRate,     \* observer: last non-null calcTPS result per session key
  ev,           \* observer: what the last step did
  calc,         \* a function applied to drawn arguments (pure-function runs)
  toggles, advances

vars == <<ticks, ev, clock, alive, started, settings, timer, timers, nextTimer,
          history, data, prev, lastTime, logLines, lastNetStats, lastNetTime,
          calls, w, pushed, lastRate, calc, toggles, advances>>

\* ------------------------------------------------------------ pure helpers
Zeros(n) == [i \in 1..n |-> 0]

\* Array.push(v) followed by Array.shift()
PushShiftDrop(buf, v) == Append(buf, v)
PushShift(buf, v) == Tail(Append(buf, v))

updateHistory(h, cpu, mem) ==
  [h EXCEPT !.cpu = PushShift(h.cpu, cpu), !.memory = PushShift(h.memory, mem)]

pushNet(h, rx, tx) ==
  [h EXCEPT !.netRx = PushShift(h.netRx, rx), !.netTx = PushShift(h.netTx, tx)]

\* x || 0 on a token count
OrZero(n) == IF n = NULL THEN 0 ELSE Val(n)

\* parseFloat((diff / (elapsedMs / 1000)).toFixed(1)), in tenths
RoundTenthsFloor(diff, elapsedMs) == (diff * 10000) \div elapsedMs
RoundTenths(diff, elapsedMs) == (2 * diff * 10000 + elapsedMs) \div (2 * elapsedMs)

calcTPSNoGuard(session, prevSession, elapsedMs) ==
  IF session = NULL \/ prevSession = NULL THEN NULL
  ELSE LET diff == OrZero(Val(session).totalTokens)
                     - OrZero(Val(prevSession).totalTokens)
       IN IF elapsedMs <= 0 THEN NULL ELSE Some(RoundTenths(diff, elapsedMs))

calcTPS(session, prevSession, elapsedMs) ==
  IF session = NULL \/ prevSession = NULL \/ elapsedMs < MinElapsedMs THEN NULL
  ELSE LET diff == OrZero(Val(session).totalTokens)
                     - OrZero(Val(prevSession).totalTokens)
       IN IF diff <= 0 THEN NULL
          ELSE IF diff * 1000 > 0 THEN Some(RoundTenths(diff, elapsedMs)) ELSE NULL

\* Array.find(s => s.key === k)
FindSession(recent, k) ==
  IF \E i \in 1..Len(recent) : recent[i].key = k
  THEN Some(recent[CHOOSE i \in 1..Len(recent) :
                /\ recent[i].key = k
                /\ \A j \in 1..(i - 1) : recent[j].key # k])
  ELSE NULL

\* a rate (rxSec, txSec) is a number of bytes per second >= 0, kept as the
\* fraction num / den in lowest terms, or one of three special values
RECURSIVE GCD(_, _)
GCD(a, b) == IF b = 0 THEN a ELSE GCD(b, a % b)
Rate(n, d) == [k |-> "number", num |-> n \div GCD(n, d), den |-> d \div GCD(n, d)]
NaNRate == [k |-> "NaN"]
InfinityRate == [k |-> "Infinity"]
NullRate == [k |-> "null"]

\* diff / ((now - lastNetTime) / 1000), for diff >= 0
PerSecond(diff, ms) ==
  IF ms = 0 THEN (IF diff = 0 THEN NaNRate ELSE InfinityRate)
  ELSE Rate(diff * 1000, ms)

\* JSON.parse(JSON.stringify(x)) on the snapshot: NaN and Infinity become null
JsonNumber(x) == IF x.k \in {"NaN", "Infinity"} THEN NullRate ELSE x

\* Math.round(n / d) and (n / d).toFixed(0), for n >= 0, d > 0
RoundDiv(n, d) == (n + d \div 2) \div d

\* formatBitsPerSecond(bytesPerSec): '0', '<n>b', '<n>K' or '<n.n>M' (the
\* megabits in tenths); NaN and Infinity fall through every comparison to
\* the last branch, null counts as 0.  x < 1000000 * den is written as
\* x \div 1000000 < den, the same for integers.
formatBytesPerSecond(r) ==
  CASE r.k = "NaN" -> [u |-> "NaNM"]
    [] r.k = "Infinity" -> [u |-> "InfinityM"]
    [] r.k = "null" -> [u |-> "", v |-> 0]
    [] r.k = "number" ->
         IF r.num = 0 THEN [u |-> "", v |-> 0]
         ELSE IF r.num < 1000 * r.den THEN [u |-> "b", v |-> RoundDiv(r.num, r.den)]
         ELSE IF r.num \div 1000000 < r.den
              THEN [u |-> "K", v |-> RoundDiv(r.num, 1000 * r.den)]
         ELSE [u |-> "M", tenths |-> RoundDiv(r.num, 100000 * r.den)]
formatBitsPerSecond(r) ==
  CASE r.k = "NaN" -> [u |-> "NaNM"]
    [] r.k = "Infinity" -> [u |-> "InfinityM"]
    [] r.k = "null" -> [u |-> "", v |-> 0]
    [] r.k = "number" ->
         LET bits == 8 * r.num
         IN IF bits = 0 THEN [u |-> "", v |-> 0]
            ELSE IF bits < 1000 * r.den THEN [u |-> "b", v |-> RoundDiv(bits, r.den)]
            ELSE IF bits \div 1000000 < r.den
                 THEN [u |-> "K", v |-> RoundDiv(bits, 1000 * r.den)]
            ELSE [u |-> "M", tenths |-> RoundDiv(bits, 100000 * r.den)]
\* The fields of this.data whose object refresh() updates in place, key by
\* key; every other field is replaced by a new value when it is updated.
InPlace == {"sessionTPS", "sessionLastTPS"}

\* A copy of the snapshot carries, as `aliased`, the fields whose object it
\* shares with this.data: a write into such an object shows through the copy.
ShallowCopy(d) ==
  [f \in DOMAIN d \cup {"aliased"} |-> IF f = "aliased" THEN InPlace ELSE d[f]]

\* JSON.parse(JSON.stringify(this.data)): every nested object is rebuilt, so
\* nothing is shared
JsonCopy(d) ==
  LET c == IF d.network = NULL THEN d
           ELSE [d EXCEPT !.network = Some([Val(@) EXCEPT !.rxSec = JsonNumber(@),
                                                          !.txSec = JsonNumber(@)])]
  IN [f \in DOMAIN c \cup {"aliased"} |-> IF f = "aliased" THEN {} ELSE c[f]]

\* what the reference p (this.prev) reads as while this.data is d
Deref(p, d) ==
  IF p = NULL THEN NULL
  ELSE Some([f \in DOMAIN d |-> IF f \in Val(p).aliased THEN d[f] ELSE Val(p)[f]])

Max0(x) == IF x < 0 THEN 0 ELSE x

\* x || null on a stored rate: undefined and 0 both give null
OrNull(x) == IF x = NULL THEN NULL ELSE IF Val(x) = 0 THEN NULL ELSE x

\* truthiness of this.lastNetTime
Truthy(x) == x # NULL /\ Val(x) # 0

\* ------------------------------------------------------------------ render
\* the widget contents render() sets from this.data, this.settings and
\* this.logLines
SessionLine(d, s) ==
  LET tpsData == d.sessionTPS[s.key]
  IN [key |-> s.key, tokens |-> OrZero(s.totalTokens),
      tps |-> IF tpsData = NULL THEN NULL ELSE Val(tpsData).value,
      active |-> IF tpsData = NULL THEN FALSE ELSE Val(tpsData).active]

Render(d, st, ll) ==
  [cpuValue |-> IF d.cpuAvg = NULL THEN 0 ELSE Val(d.cpuAvg),
   memDetail |-> IF d.memory = NULL THEN 0 ELSE Val(d.memory),
   gpuValue |-> IF ~st.showGPU THEN [text |-> "[Disabled]"]
                ELSE IF d.gpu # NULL THEN [text |-> "gpu", short |-> Val(d.gpu)]
                ELSE [text |-> "Not Detected"],
   netValue |-> IF ~st.showNetwork THEN [text |-> "[Disabled]"]
                ELSE IF d.network # NULL
                     THEN [text |-> "rates",
                           rx |-> formatBitsPerSecond(Val(d.network).rxSec),
                           tx |-> formatBitsPerSecond(Val(d.network).txSec)]
                ELSE [text |-> "No network"],
   diskValue |-> IF ~st.showDisk THEN [text |-> "[Disabled]"]
                 ELSE IF d.disk # NULL THEN [text |-> "disk", percent |-> Val(d.disk)]
                 ELSE [text |-> "No disk info"],
   logo |-> IF d.openclaw # NULL /\ Val(d.openclaw).reachable
            THEN "brightcyan" ELSE "red",
   sessList |-> IF Len(d.sessions) > 0
                THEN [text |-> "lines",
                      lines |-> [i \in 1..Len(d.sessions) |-> SessionLine(d, d.sessions[i])]]
                ELSE [text |-> "No active sessions"],
   agList |-> IF Len(d.agents) > 0 THEN [text |-> "agents", ids |-> d.agents]
              ELSE [text |-> "No agents"],
   logContent |-> IF Len(ll) > 0 THEN [text |-> "lines", lines |-> ll]
                  ELSE [text |-> "No log output"],
   footer |-> st.refreshInterval \div 1000]

\* the contents createWidgets() gives the widgets
InitWidgets ==
  [cpuValue |-> 0, memDetail |-> 0,
   gpuValue |-> [text |-> "Loading..."], netValue |-> [text |-> "Loading..."],
   diskValue |-> [text |-> "Loading..."], logo |-> "brightcyan",
   sessList |-> [text |-> ""], agList |-> [text |-> "No agents"],
   logContent |-> [text |-> "Loading logs..."], footer |-> 0]

\* -------------------------------------------------------------------- Init
InitData ==
  [cpuAvg |-> NULL, memory |-> NULL, system |-> NULL, disk |-> NULL,
   gpu |-> NULL, network |-> NULL, openclaw |-> NULL, sessions |-> <<>>,
   agents |-> <<>>, gatewayUptime |-> NULL,
   sessionTPS |-> [k \in Keys |-> NULL], sessionLastTPS |-> [k \in Keys |-> NULL]]

InitHistory ==
  [cpu |-> Zeros(HISTORY_LENGTH), memory |-> Zeros(HISTORY_LENGTH),
   netRx |-> Zeros(NETWORK_HISTORY_LENGTH), netTx |-> Zeros(NETWORK_HISTORY_LENGTH)]

NoPushes == [cpu |-> <<>>, memory |-> <<>>, netRx |-> <<>>, netTx |-> <<>>]

InitBut(st, c) ==
  /\ clock = StartTime
  /\ alive = TRUE
  /\ started = FALSE
  /\ settings = st
  /\ timer = NULL
  /\ timers = {}
  /\ nextTimer = 1
  /\ history = InitHistory
  /\ data = InitData
  /\ prev = NULL
  /\ lastTime = StartTime
  /\ logLines = <<>>
  /\ lastNetStats = NULL
  /\ lastNetTime = NULL
  /\ ticks = <<>>
  /\ calls = 0
  /\ w = InitWidgets
  /\ pushed = NoPushes
  /\ lastRate = [k \in Keys |-> NULL]
  /\ ev = [type |-> "init"]
  /\ calc = c
  /\ toggles = 0
  /\ advances = 0

loadSettingsDefaultsWin(file) ==
  IF file = NULL THEN DEFAULT_SETTINGS
  ELSE [key \in DOMAIN DEFAULT_SETTINGS \cup DOMAIN Val(file) |->
          IF key \in DOMAIN DEFAULT_SETTINGS THEN DEFAULT_SETTINGS[key]
          ELSE Val(file)[key]]

\* loadSettings(): the defaults overlaid with the object parsed from the
\* settings file; the defaults alone when the file is missing or unparsable
\* (file = NULL)
loadSettings(file) ==
  IF file = NULL THEN DEFAULT_SETTINGS
  ELSE [key \in DOMAIN DEFAULT_SETTINGS \cup DOMAIN Val(file) |->
          IF key \in DOMAIN Val(file) THEN Val(file)[key] ELSE DEFAULT_SETTINGS[key]]

\* a settings file saved with the three host sources switched off
AllOff == Some([showNetwork |-> FALSE, showGPU |-> FALSE, showDisk |-> FALSE])

\* the state after `new Dashboard()`
NoCalc == [phase |-> "unused"]
Init == \E file \in {NULL, AllOff} : InitBut(loadSettings(file), NoCalc)


\* ------------------------------------------------------- calling refresh()
\* refresh() up to its first await: now, elapsed, the CPU and memory queries.
\* doc, idle, rated, got and pushes are observers: the status outcome this
\* invocation received, the keys whose token count it found unchanged, the
\* keys calcTPS gave it a rate for, how its disk and network queries
\* settled ("none": not started), and the number of updateHistory calls it
\* has made
NewFrame ==
  [pc |-> "cpu", now |-> clock, elapsed |-> clock - lastTime,
   doc |-> NULL, idle |-> {}, rated |-> {},
   got |-> [disk |-> "none", network |-> "none"], pushes |-> 0]

RefreshCall(max) ==
  /\ calls < max
  /\ calls' = calls + 1
  /\ ticks' = Append(ticks, NewFrame)
  /\ ev' = [type |-> "call"]

\* setInterval(() => this.refresh(), period)
SetInterval(live, period) ==
  live \cup {[id |-> nextTimer, period |-> period, due |-> clock + period]}

\* clearInterval(this.timer)
ClearInterval(live, id) == {tm \in live : Some(tm.id) # id}

\* start(), run by the 500 ms timeout of init()
Start(max) ==
  /\ alive /\ ~started
  /\ started' = TRUE
  /\ RefreshCall(max)
  /\ timers' = SetInterval(timers, settings.refreshInterval)
  /\ timer' = Some(nextTimer)
  /\ nextTimer' = nextTimer + 1
  /\ UNCHANGED <<clock, alive, settings, history, data, prev, lastTime, logLines,
                 lastNetStats, lastNetTime, w, pushed, lastRate, calc, toggles,
                 advances>>

\* a live interval fires
TimerFire(tm, max) ==
  /\ alive /\ tm \in timers /\ clock >= tm.due
  /\ RefreshCall(max)
  /\ timers' = (timers \ {tm}) \cup {[tm EXCEPT !.due = clock + tm.period]}
  /\ UNCHANGED <<clock, alive, started, settings, timer, nextTimer, history, data,
                 prev, lastTime, logLines, lastNetStats, lastNetTime, w, pushed,
                 lastRate, calc, toggles, advances>>

\* key 'r'
KeyR(max) ==
  /\ alive
  /\ RefreshCall(max)
  /\ UNCHANGED <<clock, alive, started, settings, timer, timers, nextTimer,
                 history, data, prev, lastTime, logLines, lastNetStats,
                 lastNetTime, w, pushed, lastRate, calc, toggles, advances>>

\* keys 'q' and Ctrl-C
KeyQ ==
  /\ alive
  /\ timers' = ClearInterval(timers, timer)
  /\ alive' = FALSE
  /\ ev' = [type |-> "quit"]
  /\ UNCHANGED <<clock, started, settings, timer, nextTimer, history, data, prev,
                 lastTime, logLines, lastNetStats, lastNetTime, ticks, calls, w,
                 pushed, lastRate, calc, toggles, advances>>

\* a key no handler is bound to ('p' and Space among them): setupKeys binds
\* q, C-c, r, ?, h, s and S only, so nothing but the observer changes
KeyUnbound(key) ==
  /\ alive
  /\ ev' = [type |-> "key", key |-> key]
  /\ UNCHANGED <<clock, alive, started, settings, timer, timers, nextTimer,
                 history, data, prev, lastTime, logLines, lastNetStats,
                 lastNetTime, ticks, calls, w, pushed, lastRate, calc, toggles,
                 advances>>

\* wall-clock time passes
Advance(dt, max) ==
  /\ alive /\ advances < max
  /\ clock' = clock + dt
  /\ advances' = advances + 1
  /\ ev' = [type |-> "time"]
  /\ UNCHANGED <<alive, started, settings, timer, timers, nextTimer, history,
                 data, prev, lastTime, logLines, lastNetStats, lastNetTime,
                 ticks, calls, w, pushed, lastRate, calc, toggles>>

\* ------------------------------------------------------- steps of refresh()
SetPc(t, p) == [ticks EXCEPT ![t].pc = p]
At(t, p) == alive /\ t \in 1..Len(ticks) /\ ticks[t].pc = p

\* the awaits of refresh() in program order, and the fetches an invocation
\* has started when it stands at the await p: those up to p (a source
\* switched off is passed without a fetch, see FromDisk)
AwaitOrder == <<"cpu", "os", "disk", "gpu", "network", "status", "gw", "logs">>
AwaitIndex(p) == CHOOSE i \in 1..Len(AwaitOrder) : AwaitOrder[i] = p
Issued(p) == {AwaitOrder[i] : i \in 1..AwaitIndex(p)}

\* the invocation returns: its frame is gone
Return(t) == [i \in 1..(Len(ticks) - 1) |-> IF i < t THEN ticks[i] ELSE ticks[i + 1]]

\* an exception reaches the catch of refresh() before the commit
Abort(t) ==
  /\ ticks' = Return(t)
  /\ ev' = [type |-> "abort", pushes |-> ticks[t].pushes]

\* The disk, GPU and network blocks, entered when the preceding await has
\* settled: each consults its setting, and either starts its fetch (pc is the
\* await the invocation stops at) or nulls its field and falls through.
\* sk is an observer: the sources skipped on the way.
FromNetFetch(d, st, sk) == [pc |-> "network", d |-> d, sk |-> sk]
FromNet(d, st, sk) ==
  IF ~st.showNetwork
  THEN [pc |-> "status", d |-> [d EXCEPT !.network = NULL], sk |-> sk \cup {"network"}]
  ELSE [pc |-> "network", d |-> d, sk |-> sk]

FromGpu(d, st, sk) ==
  IF st.showGPU THEN [pc |-> "gpu", d |-> d, sk |-> sk]
  ELSE FromNet([d EXCEPT !.gpu = NULL], st, sk \cup {"gpu"})

FromDisk(d, st, sk) ==
  IF ~st.showDisk THEN FromGpu([d EXCEPT !.disk = NULL], st, sk \cup {"disk"})
  ELSE [pc |-> "disk", d |-> d, sk |-> sk]

\* Promise.all([si.currentLoad(), si.mem()]) settles
CpuDone(t, o) ==
  /\ At(t, "cpu")
  /\ IF o.k = "fail"
     THEN Abort(t) /\ UNCHANGED <<data, history, pushed>>
     ELSE /\ data' = [data EXCEPT !.cpuAvg = Some(o.load), !.memory = Some(o.mem)]
          /\ history' = updateHistory(history, o.load, o.mem)
          /\ pushed' = [pushed EXCEPT !.cpu = Append(@, o.load),
                                      !.memory = Append(@, o.mem)]
          /\ ticks' = [ticks EXCEPT ![t].pc = "os", ![t].pushes = @ + 1]
          /\ ev' = [type |-> "step"]
  /\ UNCHANGED <<clock, alive, started, settings, timer, timers, nextTimer, prev,
                 lastTime, logLines, lastNetStats, lastNetTime, calls, w,
                 lastRate, calc, toggles, advances>>

\* si.osInfo(), si.versions(), si.time() settle (no shared state is touched
\* between the three awaits)
OsDone(t, o) ==
  /\ At(t, "os")
  /\ IF o.k = "fail"
     THEN Abort(t) /\ UNCHANGED data
     ELSE LET nx == FromDisk([data EXCEPT !.system = Some("macOS")], settings, {})
          IN /\ data' = nx.d
             /\ ticks' = SetPc(t, nx.pc)
             /\ ev' = [type |-> "fetched", source |-> "os", outcome |-> o.k,
                       skipped |-> nx.sk, next |-> nx.pc]
  /\ UNCHANGED <<clock, alive, started, settings, timer, timers, nextTimer,
                 history, prev, lastTime, logLines, lastNetStats, lastNetTime,
                 calls, w, pushed, lastRate, calc, toggles, advances>>

\* si.fsSize() settles
DiskDone(t, o) ==
  /\ At(t, "disk")
  /\ LET d1 == CASE o.k = "ok" -> [data EXCEPT !.disk = Some(o.percent)]
                 [] o.k = "empty" -> data
                 [] o.k = "fail" -> [data EXCEPT !.disk = NULL]
         nx == FromGpu(d1, settings, {})
     IN /\ data' = nx.d
        /\ ticks' = [ticks EXCEPT ![t].pc = nx.pc, ![t].got.disk = o.k]
        /\ ev' = [type |-> "fetched", source |-> "disk", outcome |-> o.k,
                  skipped |-> nx.sk, next |-> nx.pc]
  /\ UNCHANGED <<clock, alive, started, settings, timer, timers, nextTimer,
                 history, prev, lastTime, logLines, lastNetStats, lastNetTime,
                 calls, w, pushed, lastRate, calc, toggles, advances>>

\* getMacGPU() settles with a reading or null
GpuDone(t, o) ==
  /\ At(t, "gpu")
  /\ LET nx == FromNet([data EXCEPT !.gpu = o], settings, {})
     IN /\ data' = nx.d
        /\ ticks' = SetPc(t, nx.pc)
        /\ ev' = [type |-> "fetched", source |-> "gpu",
                  outcome |-> IF o = NULL THEN "fail" ELSE "ok", skipped |-> nx.sk,
                  next |-> nx.pc]
  /\ UNCHANGED <<clock, alive, started, settings, timer, timers, nextTimer,
                 history, prev, lastTime, logLines, lastNetStats, lastNetTime,
                 calls, w, pushed, lastRate, calc, toggles, advances>>

\* the rates the network block derives from the counters of the primary
\* interface and the stored sample (lnt: this.lastNetTime, lns:
\* this.lastNetStats); NULL when there is no stored sample
NetRatesFromStart(o, lnt, lns, now) ==
  LET t0 == IF Truthy(lnt) /\ lns # NULL THEN Val(lnt) ELSE StartTime
      rx0 == IF Truthy(lnt) /\ lns # NULL THEN Val(lns).rx_bytes ELSE 0
      tx0 == IF Truthy(lnt) /\ lns # NULL THEN Val(lns).tx_bytes ELSE 0
  IN Some([rxSec |-> PerSecond(Max0(o.rx_bytes - rx0), now - t0),
           txSec |-> PerSecond(Max0(o.tx_bytes - tx0), now - t0)])

NetRates(o, lnt, lns, now) ==
  IF Truthy(lnt) /\ lns # NULL
  THEN LET ms == now - Val(lnt)
       IN Some([rxSec |-> PerSecond(Max0(o.rx_bytes - Val(lns).rx_bytes), ms),
                txSec |-> PerSecond(Max0(o.tx_bytes - Val(lns).tx_bytes), ms)])
  ELSE NULL

\* si.networkStats() settles.  sample is an observer of an answered query:
\* whether an earlier sample existed, the time since it, the growth of the
\* rx counter, and whether the step stored a rate (it does whenever an
\* earlier sample exists).  The field iface of lastNetStats is an observer
\* too: the interface the stored counters were read from, which the code
\* does not keep.
NetDone(t, o) ==
  /\ At(t, "network")
  /\ CASE o.k = "fail" ->
            /\ data' = [data EXCEPT !.network = NULL]
            /\ UNCHANGED <<history, pushed, lastNetStats, lastNetTime>>
       [] o.k = "empty" ->
            UNCHANGED <<data, history, pushed, lastNetStats, lastNetTime>>
       [] o.k = "ok" ->
            /\ LET r == NetRates(o, lastNetTime, lastNetStats, clock)
               IN IF r # NULL
                  THEN /\ data' = [data EXCEPT !.network =
                                     Some([rxSec |-> Val(r).rxSec, txSec |-> Val(r).txSec,
                                           rxTotal |-> o.rx_bytes, txTotal |-> o.tx_bytes,
                                           interface |-> o.iface])]
                       /\ history' = pushNet(history, Val(r).rxSec, Val(r).txSec)
                       /\ pushed' = [pushed EXCEPT !.netRx = Append(@, Val(r).rxSec),
                                                   !.netTx = Append(@, Val(r).txSec)]
                  ELSE UNCHANGED <<data, history, pushed>>
            /\ lastNetStats' = Some([rx_bytes |-> o.rx_bytes, tx_bytes |-> o.tx_bytes,
                                     iface |-> o.iface])
            /\ lastNetTime' = Some(clock)
  /\ ticks' = [ticks EXCEPT ![t].pc = "status", ![t].got.network = o.k]
  /\ ev' = [type |-> "fetched", source |-> "network", outcome |-> o.k,
            skipped |-> {}, next |-> "status",
            sample |->
              IF o.k # "ok" THEN NULL
              ELSE LET hadPrev == Truthy(lastNetTime) /\ lastNetStats # NULL
                   IN Some([rx_bytes |-> o.rx_bytes, tx_bytes |-> o.tx_bytes,
                            iface |-> o.iface,
                            prevIface |-> IF lastNetStats = NULL THEN o.iface
                                          ELSE Val(lastNetStats).iface,
                            hadPrev |-> hadPrev,
                            ms |-> IF hadPrev THEN clock - Val(lastNetTime) ELSE 0,
                            rxGrowth |-> IF hadPrev
                                         THEN o.rx_bytes - Val(lastNetStats).rx_bytes
                                         ELSE 0,
                            rated |->
                              NetRates(o, lastNetTime, lastNetStats, clock) # NULL])]
  /\ UNCHANGED <<clock, alive, started, settings, timer, timers, nextTimer, prev,
                 lastTime, logLines, calls, w, lastRate, calc, toggles, advances>>

\* the loop over data.openclaw.sessions.recent that maintains sessionTPS and
\* sessionLastTPS; acc also carries the observers rate and idle
RECURSIVE TpsLoop(_, _, _, _, _)
TpsLoop(recent, i, prevRecent, elapsed, acc) ==
  IF i > Len(recent) THEN acc
  ELSE LET session == recent[i]
           prevSession == FindSession(prevRecent, session.key)
           tps == calcTPS(Some(session), prevSession, elapsed)
           same == /\ prevSession # NULL
                   /\ OrZero(session.totalTokens) = OrZero(Val(prevSession).totalTokens)
           nxt == IF tps # NULL
                  THEN [acc EXCEPT
                          !.tps[session.key] = Some([value |-> tps, active |-> TRUE]),
                          !.last[session.key] = tps,
                          !.rate[session.key] = tps,
                          !.rated = @ \cup {session.key},
                          !.idle = @ \ {session.key}]
                  ELSE [acc EXCEPT
                          !.tps[session.key] =
                             Some([value |-> OrNull(acc.last[session.key]),
                                   active |-> FALSE]),
                          !.idle = IF same THEN @ \cup {session.key}
                                   ELSE @ \ {session.key}]
       IN TpsLoop(recent, i + 1, prevRecent, elapsed, nxt)

\* this.prev?.openclaw?.sessions?.recent
PrevRecent ==
  IF prev = NULL THEN NULL
  ELSE IF Val(prev).openclaw = NULL THEN NULL
  ELSE Val(Val(prev).openclaw).recent

\* what the catch of the status block leaves in the snapshot
StatusFailed(d) ==
  [d EXCEPT !.openclaw = NULL, !.sessions = <<>>, !.agents = <<>>,
            !.gatewayUptime = NULL]

\* what the try of the status block leaves in the snapshot
StatusParsed(d, o) ==
  [d EXCEPT !.openclaw = Some(o),
            !.sessions = IF o.recent = NULL THEN <<>> ELSE Val(o.recent),
            !.agents = o.agents]

\* `openclaw status --json` settles; the session rates are derived
StatusDone(t, o) ==
  /\ At(t, "status")
  /\ LET d1 == IF o.k = "fail" THEN StatusFailed(data) ELSE StatusParsed(data, o)
         loop == d1.openclaw # NULL /\ Val(d1.openclaw).recent # NULL /\ PrevRecent # NULL
         acc0 == [tps |-> d1.sessionTPS, last |-> d1.sessionLastTPS,
                  rate |-> lastRate, idle |-> {}, rated |-> {}]
         acc == IF loop
                THEN TpsLoop(Val(Val(d1.openclaw).recent), 1, Val(PrevRecent),
                             ticks[t].elapsed, acc0)
                ELSE acc0
     IN /\ data' = [d1 EXCEPT !.sessionTPS = acc.tps, !.sessionLastTPS = acc.last]
        /\ lastRate' = acc.rate
        /\ ticks' = [ticks EXCEPT ![t].pc = "gw", ![t].doc = Some(o),
                                  ![t].idle = acc.idle, ![t].rated = acc.rated]
  /\ ev' = [type |-> "fetched", source |-> "status", outcome |-> o.k,
            skipped |-> {}, next |-> "gw"]
  /\ UNCHANGED <<clock, alive, started, settings, timer, timers, nextTimer,
                 history, prev, lastTime, logLines, lastNetStats, lastNetTime,
                 calls, w, pushed, calc, toggles, advances>>

\* getGatewayUptime() settles with a number of seconds or null
GwDone(t, o) ==
  /\ At(t, "gw")
  /\ data' = [data EXCEPT !.gatewayUptime = o]
  /\ ticks' = SetPc(t, "logs")
  /\ ev' = [type |-> "fetched", source |-> "gw",
            outcome |-> IF o = NULL THEN "fail" ELSE "ok", skipped |-> {},
            next |-> "logs"]
  /\ UNCHANGED <<clock, alive, started, settings, timer, timers, nextTimer,
                 history, prev, lastTime, logLines, lastNetStats, lastNetTime,
                 calls, w, pushed, lastRate, calc, toggles, advances>>

\* the value the catch of the log block leaves in this.logLines
LogsOnFailureKeep(ll) == ll
LogsOnFailure(ll) == <<"Logs unavailable">>

\* `openclaw logs` settles; the snapshot is committed and rendered.
\* ro is what screen.render() does at the end of render(): "ok", an EPIPE or
\* write error (caught inside render), or another error (thrown on to the
\* catch of refresh())
LogsDone(t, o, ro) ==
  /\ At(t, "logs")
  /\ logLines' = IF o.k = "ok" THEN o.lines ELSE LogsOnFailure(logLines)
  /\ prev' = Some(JsonCopy(data))
  /\ lastTime' = ticks[t].now
  /\ w' = Render(data, settings, logLines')
  /\ ticks' = Return(t)
  /\ ev' = [type |-> "commit", logs |-> o.k, render |-> ro, doc |-> ticks[t].doc,
            idle |-> ticks[t].idle, rated |-> ticks[t].rated,
            elapsed |-> ticks[t].elapsed,
            got |-> ticks[t].got, pushes |-> ticks[t].pushes, before |-> logLines]
  /\ UNCHANGED <<clock, alive, started, settings, timer, timers, nextTimer,
                 history, data, lastNetStats, lastNetTime, calls, pushed,
                 lastRate, calc, toggles, advances>>

\* ---------------------------------------------------------------- settings
\* the refresh-interval cycle of toggleSettingOption, case 0
Intervals == <<1000, 2000, 5000, 10000>>

\* intervals.indexOf(val)
IndexOf(val) ==
  IF \E i \in 1..Len(Intervals) : Intervals[i] = val
  THEN (CHOOSE i \in 1..Len(Intervals) : Intervals[i] = val) - 1
  ELSE 0 - 1

\* intervals.findIndex(v => v > val)
FindIndexAbove(val) ==
  IF \E i \in 1..Len(Intervals) : Intervals[i] > val
  THEN (CHOOSE i \in 1..Len(Intervals) :
          /\ Intervals[i] > val
          /\ \A j \in 1..(i - 1) : ~(Intervals[j] > val)) - 1
  ELSE 0 - 1

\* a value of settings.refreshInterval as the settings file may hold it: a
\* number, or a string given by its characters
Num(n) == [t |-> "number", v |-> n]
Str(cs) == [t |-> "string", chars |-> cs]

Digits == <<"0", "1", "2", "3", "4", "5", "6", "7", "8", "9">>
DigitOf(c) == (CHOOSE i \in 1..10 : Digits[i] = c) - 1
IsDigit(c) == \E i \in 1..10 : Digits[i] = c

RECURSIVE Decimal(_)
Decimal(cs) ==
  IF cs = <<>> THEN 0
  ELSE 10 * Decimal(SubSeq(cs, 1, Len(cs) - 1)) + DigitOf(cs[Len(cs)])

\* Number(x): a number is itself; a string of decimal digits is the number
\* it spells, the empty string is 0, a string holding any other character
\* (letters here) is NaN, given as NULL
NumberOf(raw) ==
  IF raw.t = "number" THEN Some(raw.v)
  ELSE IF \A i \in 1..Len(raw.chars) : IsDigit(raw.chars[i])
       THEN Some(Decimal(raw.chars))
  ELSE NULL

NextIntervalStuck(raw) ==
  LET n == NumberOf(raw)
      currentVal == IF n = NULL THEN 2000 ELSE IF Val(n) = 0 THEN 2000 ELSE Val(n)
      found == IndexOf(currentVal)
  IN IF found # 0 - 1 THEN Intervals[((found + 1) % Len(Intervals)) + 1]
     ELSE currentVal

NextInterval(raw) ==
  LET n == NumberOf(raw)
      currentVal == IF n = NULL THEN 2000 ELSE IF Val(n) = 0 THEN 2000 ELSE Val(n)
      found == IndexOf(currentVal)
      lower == FindIndexAbove(currentVal) - 1
      currentIdx == IF found # 0 - 1 THEN found
                    ELSE IF lower < 0 THEN Len(Intervals) - 1 ELSE lower
  IN Intervals[((currentIdx + 1) % Len(Intervals)) + 1]

ToggleValue(st, index) ==
  CASE index = 0 -> [st EXCEPT !.refreshInterval = NextInterval(Num(@))]
    [] index = 1 -> [st EXCEPT !.showNetwork = ~@]
    [] index = 2 -> [st EXCEPT !.showGPU = ~@]
    [] index = 3 -> [st EXCEPT !.showDisk = ~@]

\* the 'select' handler of the settings list: toggleSettingOption(index),
\* which ends in render() (ro: what its screen.render() does), then the list
\* is refilled and the handler calls screen.render() itself (so).  An error
\* that leaves the handler reaches the 'uncaughtException' handler of the
\* constructor, which exits the process on EPIPE / write errors and rethrows
\* any other error: either way the process ends
SelectSetting(index, ro, so) ==
  /\ alive /\ toggles < MaxToggles
  /\ toggles' = toggles + 1
  /\ settings' = ToggleValue(settings, index)
  /\ IF index = 0
     THEN /\ timers' = SetInterval(ClearInterval(timers, timer), settings'.refreshInterval)
          /\ timer' = Some(nextTimer)
          /\ nextTimer' = nextTimer + 1
     ELSE UNCHANGED <<timers, timer, nextTimer>>
  /\ w' = Render(data, settings', logLines)
  /\ ro = "other" => so = "ok"
  /\ alive' = (ro # "other" /\ so = "ok")
  /\ ev' = [type |-> "toggle", index |-> index, render |-> ro, screen |-> so]
  /\ UNCHANGED <<clock, started, history, data, prev, lastTime, logLines,
                 lastNetStats, lastNetTime, ticks, calls, pushed, lastRate, calc,
                 advances>>

\* ----------------------------------------------------------- specification
\* The full interleaving of refresh() invocations, key presses, settings
\* selections and the passing of time.  The host sources answer; the status
\* and log commands, the OS query and the screen may fail.
Next ==
  \/ Start(MaxTicks)
  \/ \E tm \in timers : TimerFire(tm, MaxTicks)
  \/ KeyR(MaxTicks)
  \/ KeyQ
  \/ \E dt \in {30000} : Advance(dt, MaxAdvances)
  \/ \E index \in 0..3, ro \in {"ok", "EPIPE", "other"}, so \in {"ok", "EPIPE"} :
       SelectSetting(index, ro, so)
  \/ \E t \in 1..Len(ticks) :
       \/ \E o \in {CpuOk(10, 40)} : CpuDone(t, o)
       \/ \E o \in {[k |-> "ok"], Fail} : OsDone(t, o)
       \/ \E o \in {DiskOk(50)} : DiskDone(t, o)
       \/ \E o \in {Some("M1 GPU")} : GpuDone(t, o)
       \/ \E o \in {NetOk("en0", 1000, 2000)} : NetDone(t, o)
       \/ \E o \in {Fail, DocWith(100), DocEmpty} : StatusDone(t, o)
       \/ \E o \in {NULL} : GwDone(t, o)
       \/ \E o \in {LogsOk(<<"gateway up">>), Fail}, ro \in {"ok", "EPIPE", "other"} :
            LogsDone(t, o, ro)

Spec == Init /\ [][Next]_vars

\* The host sources (disk, GPU, network) may each answer, answer with nothing
\* or fail, and each can be switched off and on at any moment of a tick; the
\* status and log commands are not installed; refresh() is called only when
\* no invocation is in flight, and the refresh interval is left as loaded.
NextSources ==
  \/ ticks = <<>> /\ Start(MaxTicks)
  \/ ticks = <<>> /\ \E tm \in timers : TimerFire(tm, MaxTicks)
  \/ ticks = <<>> /\ KeyR(MaxTicks)
  \/ \E dt \in {30000} : Advance(dt, MaxAdvances)
  \/ \E index \in 1..3, ro \in {"ok"}, so \in {"ok"} : SelectSetting(index, ro, so)
  \/ \E t \in 1..Len(ticks) :
       \/ \E o \in {CpuOk(10, 40)} : CpuDone(t, o)
       \/ \E o \in {[k |-> "ok"]} : OsDone(t, o)
       \/ \E o \in {DiskOk(50), Empty, Fail} : DiskDone(t, o)
       \/ \E o \in {Some("M1 GPU"), NULL} : GpuDone(t, o)
       \/ \E o \in {NetOk("en0", 1000, 2000), Empty, Fail} : NetDone(t, o)
       \/ \E o \in {Fail} : StatusDone(t, o)
       \/ \E o \in {NULL} : GwDone(t, o)
       \/ \E o \in {Fail}, ro \in {"ok"} : LogsDone(t, o, ro)

SpecSources == Init /\ [][NextSources]_vars

\* Ticks in sequence: refresh() is called only when no invocation is in
\* flight.  The host sources are switched off; the status command reports one
\* session whose token count moves between reports, or fails; the CPU and
\* OS queries, the log command and the screen may fail.
NextSeq ==
  \/ ticks = <<>> /\ Start(MaxSeqTicks)
  \/ ticks = <<>> /\ \E tm \in timers : TimerFire(tm, MaxSeqTicks)
  \/ ticks = <<>> /\ KeyR(MaxSeqTicks)
  \/ \E key \in {"p"} : KeyUnbound(key)
  \/ \E dt \in {1000, 30000} : Advance(dt, MaxSeqAdvances)
  \/ \E t \in 1..Len(ticks) :
       \/ \E o \in {CpuOk(10, 40), Fail} : CpuDone(t, o)
       \/ \E o \in {[k |-> "ok"], Fail} : OsDone(t, o)
       \/ \E o \in {DocWith(100), DocWith(101), DocEmpty, DocBare, Fail} :
            StatusDone(t, o)
       \/ \E o \in {NULL} : GwDone(t, o)
       \/ \E o \in {LogsOk(<<"gateway up">>), Fail}, ro \in {"ok", "other"} :
            LogsDone(t, o, ro)

SpecSeq == InitBut(loadSettings(AllOff), NoCalc) /\ [][NextSeq]_vars

\* Ticks in sequence while the status command comes and goes: every other
\* source answers (the host sources are switched off), the status command
\* reports one session at 100 or 200 tokens, or fails.
NextStatus ==
  \/ ticks = <<>> /\ Start(MaxStatusTicks)
  \/ ticks = <<>> /\ \E tm \in timers : TimerFire(tm, MaxStatusTicks)
  \/ ticks = <<>> /\ KeyR(MaxStatusTicks)
  \/ \E dt \in {30000} : Advance(dt, MaxAdvances)
  \/ \E t \in 1..Len(ticks) :
       \/ \E o \in {CpuOk(10, 40)} : CpuDone(t, o)
       \/ \E o \in {[k |-> "ok"]} : OsDone(t, o)
       \/ \E o \in {DocWith(100), DocWith(200), Fail} : StatusDone(t, o)
       \/ \E o \in {NULL} : GwDone(t, o)
       \/ \E o \in {LogsOk(<<"gateway up">>)}, ro \in {"ok"} : LogsDone(t, o, ro)

SpecStatus == InitBut(loadSettings(AllOff), NoCalc) /\ [][NextStatus]_vars

\* Ticks in sequence on a host whose primary interface changes: the network
\* query reports the counters of en0 or those of en1 (the other host sources
\* are switched off, the status and log commands are not installed).
NetOnly == Some([showGPU |-> FALSE, showDisk |-> FALSE])

NextIfaces ==
  \/ ticks = <<>> /\ Start(MaxSeqTicks)
  \/ ticks = <<>> /\ \E tm \in timers : TimerFire(tm, MaxSeqTicks)
  \/ ticks = <<>> /\ KeyR(MaxSeqTicks)
  \/ \E dt \in {1000, 30000} : Advance(dt, MaxSeqAdvances)
  \/ \E t \in 1..Len(ticks) :
       \/ \E o \in {CpuOk(10, 40)} : CpuDone(t, o)
       \/ \E o \in {[k |-> "ok"]} : OsDone(t, o)
       \/ \E o \in {NetOk("en0", 1000, 2000), NetOk("en0", 1500, 2000),
                    NetOk("en1", 126000, 7000)} : NetDone(t, o)
       \/ \E o \in {Fail} : StatusDone(t, o)
       \/ \E o \in {NULL} : GwDone(t, o)
       \/ \E o \in {Fail}, ro \in {"ok"} : LogsDone(t, o, ro)

SpecIfaces == InitBut(loadSettings(NetOnly), NoCalc) /\ [][NextIfaces]_vars

\* calcTPS as a function: the arguments are drawn, then it is applied
TokenArgs == {NULL, Some(0), Some(100), Some(101), Some(105), Some(200)}
SessionArgs == {NULL} \cup {Some([key |-> "a", totalTokens |-> n]) : n \in TokenArgs}
\* (no drawn pair is an exact decimal tie x.x5, where the binary double
\* nearest to the quotient decides the digit toFixed prints)
ElapsedArgs == {0, 50, 99, 100, 101, 999, 1000, 1500, 3000, 7000, 30000}

CalcArgs ==
  {[phase |-> "args", session |-> a, prevSession |-> b, elapsedMs |-> e] :
     a \in SessionArgs, b \in SessionArgs, e \in ElapsedArgs}

ApplyCalcTPS ==
  /\ calc.phase = "args"
  /\ calc' = [phase |-> "done", session |-> calc.session,
              prevSession |-> calc.prevSession, elapsedMs |-> calc.elapsedMs,
              result |-> calcTPS(calc.session, calc.prevSession, calc.elapsedMs)]
  /\ UNCHANGED <<clock, alive, started, settings, timer, timers, nextTimer,
                 history, data, prev, lastTime, logLines, lastNetStats,
                 lastNetTime, ticks, calls, w, pushed, lastRate, ev, toggles,
                 advances>>

SpecCalc == (\E c \in CalcArgs : InitBut(DEFAULT_SETTINGS, c)) /\ [][ApplyCalcTPS]_vars

\* loadSettings as a function of the settings file: the file is drawn (NULL:
\* missing or unparsable; otherwise an object holding some of the keys, one
\* of them unknown to the defaults), then loaded
FullFiles ==
  {[refreshInterval |-> i, showNetwork |-> n, showGPU |-> FALSE, showDisk |-> FALSE,
    colorScheme |-> "dark", theme |-> "solarized"] : i \in {1000, 5000}, n \in BOOLEAN}
FileKeys ==
  {"refreshInterval", "showNetwork", "showGPU", "showDisk", "colorScheme", "theme"}
FileArgs ==
  {NULL} \cup {Some([key \in K |-> f[key]]) : K \in SUBSET FileKeys, f \in FullFiles}

ApplyLoadSettings ==
  /\ calc.phase = "file"
  /\ calc' = [phase |-> "loaded", file |-> calc.file, result |-> loadSettings(calc.file)]
  /\ UNCHANGED <<clock, alive, started, settings, timer, timers, nextTimer,
                 history, data, prev, lastTime, logLines, lastNetStats,
                 lastNetTime, ticks, calls, w, pushed, lastRate, ev, toggles,
                 advances>>

SpecSettings ==
  /\ \E f \in FileArgs : InitBut(DEFAULT_SETTINGS, [phase |-> "file", file |-> f])
  /\ [][ApplyLoadSettings]_vars

\* The refresh-interval cycle as a function of the stored value: the value
\* is drawn (a member of the cycle, a number outside it, a string), then the
\* entry is toggled up to MaxCycle times
RawIntervals ==
  {Num(n) : n \in {1000, 2000, 5000, 10000, 0, 500, 1001, 1500, 3000, 7000, 9999,
                   20000, 0 - 5}}
  \cup {Str(cs) : cs \in {<<"1", "0", "0", "0">>, <<"2", "0", "0", "0">>,
                          <<"5", "0", "0", "0">>, <<"1", "0", "0", "0", "0">>,
                          <<"3", "0", "0", "0">>, <<"5", "0", "0">>, <<"0">>, <<>>,
                          <<"a", "b", "c">>, <<"1", "2", "x">>}}

ApplyToggleInterval ==
  /\ calc.phase = "interval" /\ Len(calc.seen) < MaxCycle
  /\ LET current == IF calc.seen = <<>> THEN calc.raw
                    ELSE Num(calc.seen[Len(calc.seen)])
     IN calc' = [calc EXCEPT !.seen = Append(@, NextInterval(current))]
  /\ UNCHANGED <<clock, alive, started, settings, timer, timers, nextTimer,
                 history, data, prev, lastTime, logLines, lastNetStats,
                 lastNetTime, ticks, calls, w, pushed, lastRate, ev, toggles,
                 advances>>

SpecInterval ==
  /\ \E r \in RawIntervals :
        InitBut(DEFAULT_SETTINGS, [phase |-> "interval", raw |-> r, seen |-> <<>>])
  /\ [][ApplyToggleInterval]_vars

\* The network rate and its display as a function of two counter samples:
\* the counters and the interval between the samples are drawn, then the
\* rate is derived as NetDone derives it and formatted as render() does
\* (no drawn case is an exact rounding tie)
RxArgs == {0, 1000, 1500, 126000, 200000}
MsArgs == {0, 7, 1000, 2000, 3000, 30000}

NetArgs ==
  {[phase |-> "samples", last |-> a, rx_bytes |-> b, ms |-> m] :
     a \in RxArgs, b \in RxArgs, m \in MsArgs}

ApplyNetRate ==
  /\ calc.phase = "samples"
  /\ LET rxSec == PerSecond(Max0(calc.rx_bytes - calc.last), calc.ms)
     IN calc' = [phase |-> "shown", last |-> calc.last, rx_bytes |-> calc.rx_bytes,
                 ms |-> calc.ms, rxSec |-> rxSec, rxStr |-> formatBitsPerSecond(rxSec)]
  /\ UNCHANGED <<clock, alive, started, settings, timer, timers, nextTimer,
                 history, data, prev, lastTime, logLines, lastNetStats,
                 lastNetTime, ticks, calls, w, pushed, lastRate, ev, toggles,
                 advances>>

SpecNet == (\E c \in NetArgs : InitBut(DEFAULT_SETTINGS, c)) /\ [][ApplyNetRate]_vars

\* getMacGPU as a function of what its four sources deliver.  A GPU name is
\* [apple, rest]: the string 'Apple ' + rest when apple holds, else rest.
GpuName(a, r) == [apple |-> a, rest |-> r]

\* system_profiler: Fail, or displays[0] with its name (sppci_model ||
\* _name, NULL when it has neither or there is no display) and its
\* spdisplays_utilization
ProfilerArgs ==
  {Fail} \cup {[k |-> "ok", model |-> m, utilization |-> u] :
                 m \in {NULL, Some(GpuName(TRUE, "M2 Pro"))}, u \in {NULL, Some(30)}}
\* ioreg | grep: Fail, or the set of the tags found in its output
IoregArgs ==
  {Fail} \cup {[k |-> "ok", tags |-> s] :
                 s \in {{}, {"AGX"}, {"AGX", "G13G"}, {"AGX", "G14G"}, {"AGX", "G15G"},
                        {"G13G"}}}
\* powermetrics | grep: Fail, or the residency and frequency lines matched
PowerArgs ==
  {Fail} \cup {[k |-> "ok", utilization |-> u, frequency |-> f] :
                 u \in {NULL, Some(55)}, f \in {NULL, Some(1200)}}
\* si.graphics(): Fail, or controllers[0].model (NULL: no controller)
GraphicsArgs ==
  {Fail} \cup {[k |-> "ok", model |-> m] : m \in {NULL, Some(GpuName(FALSE, "Iris Plus"))}}

\* the model the ioreg block derives from the tags, when it has none yet
IoregModel(tags) ==
  IF "G15G" \in tags \/ "G16G" \in tags THEN GpuName(TRUE, "M3 GPU")
  ELSE IF "G14G" \in tags THEN GpuName(TRUE, "M2 GPU")
  ELSE IF "G13G" \in tags THEN GpuName(TRUE, "M1 GPU")
  ELSE GpuName(TRUE, "Silicon GPU")

\* the locals model, utilization and frequency of getMacGPU after its four
\* blocks (p: profiler, i: ioreg, pm: powermetrics, g: si.graphics)
GpuFields(p, i, pm, g) ==
  LET model1 == IF p.k = "ok" THEN p.model ELSE NULL
      util1 == IF p.k = "ok" THEN p.utilization ELSE NULL
      model2 == IF i.k = "ok" /\ "AGX" \in i.tags /\ model1 = NULL
                THEN Some(IoregModel(i.tags)) ELSE model1
      util3 == IF pm.k = "ok" /\ pm.utilization # NULL THEN pm.utilization ELSE util1
      freq3 == IF pm.k = "ok" THEN pm.frequency ELSE NULL
      model4 == IF model2 = NULL /\ g.k = "ok" /\ g.model # NULL THEN g.model
                ELSE model2
  IN [model |-> model4, utilization |-> util3, frequency |-> freq3]

\* getMacGPU(): the reading, or null when no model was found
getMacGPU(p, i, pm, g) ==
  LET f == GpuFields(p, i, pm, g)
  IN IF f.model # NULL
     THEN Some([model |-> Val(f.model), short |-> Val(f.model).rest,
                utilization |-> f.utilization, frequency |-> f.frequency])
     ELSE NULL

GpuArgs ==
  {[phase |-> "gpu", profiler |-> p, ioreg |-> i, power |-> pm, graphics |-> g] :
     p \in ProfilerArgs, i \in IoregArgs, pm \in PowerArgs, g \in GraphicsArgs}

ApplyGetMacGPU ==
  /\ calc.phase = "gpu"
  /\ calc' = [phase |-> "gpu-done",
              obtained |-> GpuFields(calc.profiler, calc.ioreg, calc.power, calc.graphics),
              result |-> getMacGPU(calc.profiler, calc.ioreg, calc.power, calc.graphics)]
  /\ UNCHANGED <<clock, alive, started, settings, timer, timers, nextTimer,
                 history, data, prev, lastTime, logLines, lastNetStats,
                 lastNetTime, ticks, calls, w, pushed, lastRate, ev, toggles,
                 advances>>

SpecGpu == (\E c \in GpuArgs : InitBut(DEFAULT_SETTINGS, c)) /\ [][ApplyGetMacGPU]_vars

\* fetchVersion() and getLatestVersion(): the version command, then one
\* HTTPS request.  The body arrives in chunks; a chunk is a piece of text
\* told apart by what the parser makes of it.
Chunks ==
  {[c |-> "{"], [c |-> "}"], [c |-> "field"], [c |-> "<html>"],
   [c |-> "tag_name", text |-> <<"v", "1", ".", "2">>],
   [c |-> "tag_name", text |-> <<"1", ".", "2">>]}

\* the server of the request: it answers, it refuses the connection, or it
\* accepts the connection and stays silent
Servers == {"answers", "refuses", "silent"}

\* JSON.parse(data): the object { fields } with its tag_name (NULL when it
\* has none), or a SyntaxError (Fail) for any other text, the empty one too
ParseJson(body) ==
  IF /\ Len(body) >= 2 /\ body[1].c = "{" /\ body[Len(body)].c = "}"
     /\ \A n \in 2..(Len(body) - 1) : body[n].c \in {"field", "tag_name"}
  THEN [k |-> "ok",
        tag_name |-> IF \E n \in 2..(Len(body) - 1) : body[n].c = "tag_name"
                     THEN Some(body[CHOOSE n \in 2..(Len(body) - 1) :
                                      /\ body[n].c = "tag_name"
                                      /\ \A m \in (n + 1)..(Len(body) - 1) :
                                            body[m].c # "tag_name"].text)
                     ELSE NULL]
  ELSE Fail

\* tag.replace(/^v/, '')
StripV(text) == IF text # <<>> /\ Head(text) = "v" THEN Tail(text) ELSE text

\* the value the 'end' handler resolves with: tag_name?.replace(/^v/, ''),
\* or null when JSON.parse throws (NULL stands for null and undefined)
EndValue(body) ==
  LET doc == ParseJson(body)
  IN IF doc.k = "fail" THEN NULL
     ELSE IF doc.tag_name = NULL THEN NULL
     ELSE Some(StripV(Val(doc.tag_name)))

VersionArgs ==
  {[phase |-> "version", server |-> s, version |-> NULL, body |-> <<>>,
    timedOut |-> FALSE, result |-> NULL, latest |-> NULL] : s \in Servers}

\* `openclaw --version` settles: on success the request is sent, on failure
\* the catch of fetchVersion stores 'unknown' and no request is made
VersionDone(o) ==
  /\ calc.phase = "version"
  /\ calc' = IF o.k = "ok"
             THEN [calc EXCEPT !.phase = "request", !.version = Some(o.stdout)]
             ELSE [calc EXCEPT !.phase = "finished", !.version = Some("unknown")]
  /\ UNCHANGED <<clock, alive, started, settings, timer, timers, nextTimer,
                 history, data, prev, lastTime, logLines, lastNetStats,
                 lastNetTime, ticks, calls, w, pushed, lastRate, ev, toggles,
                 advances>>

\* res.on('data'): a chunk of the body arrives
ResData(chunk) ==
  /\ calc.phase = "request" /\ calc.server = "answers"
  /\ Len(calc.body) < MaxChunks
  /\ calc' = [calc EXCEPT !.body = Append(@, chunk)]
  /\ UNCHANGED <<clock, alive, started, settings, timer, timers, nextTimer,
                 history, data, prev, lastTime, logLines, lastNetStats,
                 lastNetTime, ticks, calls, w, pushed, lastRate, ev, toggles,
                 advances>>

\* res.on('end'): the body is parsed and the promise resolved
ResEnd ==
  /\ calc.phase = "request" /\ calc.server = "answers"
  /\ calc' = [calc EXCEPT !.phase = "resolved", !.result = EndValue(calc.body)]
  /\ UNCHANGED <<clock, alive, started, settings, timer, timers, nextTimer,
                 history, data, prev, lastTime, logLines, lastNetStats,
                 lastNetTime, ticks, calls, w, pushed, lastRate, ev, toggles,
                 advances>>

\* the 'error' event of the request: resolve(null)
ReqError ==
  /\ calc.phase = "request" /\ calc.server = "refuses"
  /\ calc' = [calc EXCEPT !.phase = "resolved", !.result = NULL]
  /\ UNCHANGED <<clock, alive, started, settings, timer, timers, nextTimer,
                 history, data, prev, lastTime, logLines, lastNetStats,
                 lastNetTime, ticks, calls, w, pushed, lastRate, ev, toggles,
                 advances>>

\* the socket has been idle for 3000 ms: the request emits 'timeout'.  The
\* code passes no callback to setTimeout and registers no 'timeout'
\* listener, and Node leaves the request open, so the promise is untouched
ReqTimeout ==
  /\ calc.phase = "request" /\ calc.server = "silent" /\ ~calc.timedOut
  /\ calc' = [calc EXCEPT !.timedOut = TRUE]
  /\ UNCHANGED <<clock, alive, started, settings, timer, timers, nextTimer,
                 history, data, prev, lastTime, logLines, lastNetStats,
                 lastNetTime, ticks, calls, w, pushed, lastRate, ev, toggles,
                 advances>>

\* fetchVersion resumes after its await: this.data.latest = the result
\* (kept in calc.latest)
LatestAssigned ==
  /\ calc.phase = "resolved"
  /\ calc' = [calc EXCEPT !.phase = "finished", !.latest = calc.result]
  /\ UNCHANGED <<clock, alive, started, settings, timer, timers, nextTimer,
                 history, data, prev, lastTime, logLines, lastNetStats,
                 lastNetTime, ticks, calls, w, pushed, lastRate, ev, toggles,
                 advances>>

NextVersion ==
  \/ \E o \in {[k |-> "ok", stdout |-> "1.2"], Fail} : VersionDone(o)
  \/ \E chunk \in Chunks : ResData(chunk)
  \/ ResEnd
  \/ ReqError
  \/ ReqTimeout
  \/ LatestAssigned

\* every event that is ready is eventually delivered by the event loop
SpecVersion ==
  /\ \E c \in VersionArgs : InitBut(DEFAULT_SETTINGS, c)
  /\ [][NextVersion]_vars
  /\ WF_vars(NextVersion)

\* The history buffers as a data structure: the n-th push carries the
\* sample n, so that every position of a buffer is told apart
HistoryPush ==
  /\ Len(pushed.cpu) < MaxPushes
  /\ \E cpu \in {Len(pushed.cpu) + 1}, mem \in {100 + Len(pushed.cpu)} :
       /\ history' = updateHistory(history, cpu, mem)
       /\ pushed' = [pushed EXCEPT !.cpu = Append(@, cpu), !.memory = Append(@, mem)]
  /\ UNCHANGED <<clock, alive, started, settings, timer, timers, nextTimer, data,
                 prev, lastTime, logLines, lastNetStats, lastNetTime, ticks,
                 calls, w, lastRate, ev, calc, toggles, advances>>

NetPush ==
  /\ Len(pushed.netRx) < MaxNetPushes
  /\ \E rx \in {500 * (Len(pushed.netRx) + 1)}, tx \in {7 * Len(pushed.netRx)} :
       /\ history' = pushNet(history, rx, tx)
       /\ pushed' = [pushed EXCEPT !.netRx = Append(@, rx), !.netTx = Append(@, tx)]
  /\ UNCHANGED <<clock, alive, started, settings, timer, timers, nextTimer, data,
                 prev, lastTime, logLines, lastNetStats, lastNetTime, ticks,
                 calls, w, lastRate, ev, calc, toggles, advances>>

SpecHistory == InitBut(DEFAULT_SETTINGS, NoCalc) /\ [][HistoryPush \/ NetPush]_vars

\* ------------------------------------------------------------------ claims
Committed == ev.type = "commit"

\* sessions.recent of a status outcome, [] when it has none
RecentOf(doc) ==
  IF doc.k = "fail" THEN <<>> ELSE IF doc.recent = NULL THEN <<>> ELSE Val(doc.recent)

\* C1: no two refresh() executions are in flight at the same time; a trigger
\* that arrives while one is in flight is skipped or queued.
C1_NoOverlap == Len(ticks) <= 1

\* C2: when the status fetch of a tick failed, the snapshot this tick commits
\* and renders has openclaw = null, sessions = [] and agents = [].
C2_StatusFailureCommitted ==
  (Committed /\ ev.doc = Some(Fail)) =>
     /\ Val(prev).openclaw = NULL
     /\ Val(prev).sessions = <<>>
     /\ Val(prev).agents = <<>>
     /\ w.logo = "red"
     /\ w.sessList.text = "No active sessions"

\* C3: the session list a tick commits equals sessions.recent of the status
\* response this tick received ([] when it has none), so a session the
\* response no longer reports is not in the committed snapshot.
C3_SessionsFromOwnResponse ==
  Committed => Val(prev).sessions = RecentOf(Val(ev.doc))

\* C4: for a session whose token count a tick found unchanged, at least
\* 100 ms after the tick before, the committed sessionTPS entry is inactive
\* and carries the rate of the last tick in which the session was active.
C4_IdleKeepsLastRate ==
  (Committed /\ ev.elapsed >= MinElapsedMs) =>
     \A key \in ev.idle :
        lastRate[key] # NULL =>
           data.sessionTPS[key] = Some([value |-> lastRate[key], active |-> FALSE])

\* the token counts calcTPS reads from its arguments
CalcDone == calc.phase = "done"
CurrTokens == OrZero(Val(calc.session).totalTokens)
PrevTokens == OrZero(Val(calc.prevSession).totalTokens)

\* C5: calcTPS returns null whenever the previous session is absent, or
\* elapsedMs < 100, or the current token count is not above the previous one.
C5_NoRate ==
  CalcDone =>
     /\ calc.prevSession = NULL => calc.result = NULL
     /\ calc.elapsedMs < 100 => calc.result = NULL
     /\ (calc.session # NULL /\ calc.prevSession # NULL /\ CurrTokens <= PrevTokens)
           => calc.result = NULL

C5_Witness ==
  /\ CalcDone /\ calc.result = NULL
  /\ calc.session # NULL /\ calc.prevSession # NULL
  /\ calc.elapsedMs = 99 /\ CurrTokens > PrevTokens

\* C6: for curr > prev and elapsedMs >= 100, calcTPS returns a number with
\* one decimal that is as near to (curr - prev) / (elapsedMs / 1000) as one
\* decimal allows: the two differ by at most 0.05.  (result is in tenths:
\* |result / 10 - diff * 1000 / elapsedMs| <= 1 / 20.)
C6_RoundedRate ==
  (/\ CalcDone /\ calc.session # NULL /\ calc.prevSession # NULL
   /\ CurrTokens > PrevTokens /\ calc.elapsedMs >= 100) =>
     /\ calc.result # NULL
     /\ LET err == Val(calc.result) * calc.elapsedMs - (CurrTokens - PrevTokens) * 10000
        IN 2 * err <= calc.elapsedMs /\ 2 * (0 - err) <= calc.elapsedMs

\* 100 tokens in 1.5 s: 66.66... is reported as 66.7
C6_Witness ==
  /\ CalcDone /\ calc.session # NULL /\ calc.prevSession # NULL
  /\ CurrTokens - PrevTokens = 100 /\ calc.elapsedMs = 1500
  /\ calc.result = Some(667)

\* the last c elements of c zeros followed by the pushed values s
LastOf(s, c) == SubSeq(Zeros(c) \o s, Len(s) + 1, Len(s) + c)

\* C7: every history buffer starts as zeros at its capacity (60 for cpu and
\* memory, 30 for netRx and netTx), keeps that length after any number of
\* pushes, and holds the last pushed values oldest first.
C7_HistoryWindow ==
  /\ Len(history.cpu) = 60 /\ Len(history.memory) = 60
  /\ Len(history.netRx) = 30 /\ Len(history.netTx) = 30
  /\ history.cpu = LastOf(pushed.cpu, HISTORY_LENGTH)
  /\ history.memory = LastOf(pushed.memory, HISTORY_LENGTH)
  /\ history.netRx = LastOf(pushed.netRx, NETWORK_HISTORY_LENGTH)
  /\ history.netTx = LastOf(pushed.netTx, NETWORK_HISTORY_LENGTH)

\* more pushes than the capacity: the first samples are gone, index 0 holds
\* the oldest of the last 60 (30)
C7_Witness ==
  /\ Len(pushed.cpu) = HISTORY_LENGTH + 2
  /\ history.cpu[1] = pushed.cpu[3] /\ history.cpu[HISTORY_LENGTH] = pushed.cpu[HISTORY_LENGTH + 2]
  /\ Len(pushed.netRx) = NETWORK_HISTORY_LENGTH + 1
  /\ history.netRx[1] = pushed.netRx[2]

\* C8 as claimed: when the log fetch of a tick failed, this.logLines after the
\* tick equals the lines the tick before left in it.
C8_LogsRetained ==
  (Committed /\ ev.logs = "fail" /\ ev.before # <<>>) => logLines = ev.before

\* C8 as amended: when the log fetch of a tick failed, the tick replaces the
\* log lines by the single line 'Logs unavailable', and renders that line.
C8_LogsPlaceholder ==
  (Committed /\ ev.logs = "fail") =>
     /\ logLines = <<"Logs unavailable">>
     /\ w.logContent = [text |-> "lines", lines |-> <<"Logs unavailable">>]

C8_Witness ==
  /\ Committed /\ ev.logs = "fail"
  /\ ev.before = <<"gateway up">>
  /\ logLines = <<"Logs unavailable">>

\* the sources a setting switches off, by the name of their data field
Sources == {"disk", "gpu", "network"}
Shown(src) ==
  CASE src = "disk" -> settings.showDisk
    [] src = "gpu" -> settings.showGPU
    [] src = "network" -> settings.showNetwork
WidgetOf(src) ==
  CASE src = "disk" -> w.diskValue
    [] src = "gpu" -> w.gpuValue
    [] src = "network" -> w.netValue

C10_FailedTickCommitsNothing ==
  [][(ev'.type = "abort" \/ (ev'.type = "commit" /\ ev'.render = "other")) =>
       /\ prev' = prev
       /\ lastTime' = lastTime
       /\ w' = w
       /\ timers' = timers]_vars

\* C11: the failure of a single source is contained to that source: the tick
\* goes on to fetch the other sources, so a tick ends only by committing and
\* rendering its snapshot.
C11_FailureContained ==
  [][Len(ticks') < Len(ticks) => ev'.type = "commit"]_vars

\* C12: in every committed snapshot the disk field and the network field are
\* a reading the committing tick obtained itself, or null: when the tick's
\* query did not deliver a reading (skipped, failed, or answered without a
\* filesystem / interface) the committed field is null.
C12_NoStaleReading ==
  Committed =>
     /\ ev.got.disk # "ok" => Val(prev).disk = NULL
     /\ ev.got.network # "ok" => Val(prev).network = NULL

\* a step that called render(): the commit of a tick, or a settings selection
Rendered == ev.type \in {"commit", "toggle"}

\* C13: at every call of render(), this.data is the snapshot last copied into
\* this.prev by a completed tick: never the initial data, never data a tick
\* in flight or an aborted tick has partly updated.
C13_RendersCommitted ==
  Rendered => prev = Some(JsonCopy(data))

\* C14: an EPIPE / write error raised while the screen is written is
\* swallowed: the process is still running after the tick's render() or the
\* settings handler in which it was raised.
C14_BrokenStreamSwallowed ==
  /\ (Rendered /\ ev.render = "EPIPE") => alive
  /\ (ev.type = "toggle" /\ ev.screen = "EPIPE") => alive

\* C15: a counter that grew by d bytes over s > 0 seconds is displayed as the
\* formatting of 8 * d / s bits per second: '0' for zero, the nearest whole
\* number of bits followed by 'b' below 1000, the nearest whole number of
\* kilobits followed by 'K' below 1000000, the nearest tenth of a megabit
\* followed by 'M' otherwise; rx = 1000 then 1500 one second later gives
\* rxSec = 500 and '4K'.  (bits per second = Bits / calc.ms.)
C15_DisplayedBits ==
  (calc.phase = "shown" /\ calc.ms > 0 /\ calc.rx_bytes >= calc.last) =>
     LET Bits == 8 * (calc.rx_bytes - calc.last) * 1000
         ms == calc.ms
         s == calc.rxStr
         Near(shownTimes, unit) ==
           /\ 2 * (shownTimes * unit * ms - Bits) <= unit * ms
           /\ 2 * (Bits - shownTimes * unit * ms) <= unit * ms
     IN /\ Bits = 0 => s = [u |-> "", v |-> 0]
        /\ (0 < Bits /\ Bits < 1000 * ms) => s.u = "b" /\ Near(s.v, 1)
        /\ (1000 * ms <= Bits /\ Bits \div 1000000 < ms) => s.u = "K" /\ Near(s.v, 1000)
        /\ Bits \div 1000000 >= ms => s.u = "M" /\ Near(s.tenths, 100000)
        /\ (calc.last = 1000 /\ calc.rx_bytes = 1500 /\ ms = 1000) =>
              /\ calc.rxSec = [k |-> "number", num |-> 500, den |-> 1]
              /\ s = [u |-> "K", v |-> 4]

C15_Witness ==
  /\ calc.phase = "shown"
  /\ calc.last = 1000 /\ calc.rx_bytes = 1500 /\ calc.ms = 1000
  /\ calc.rxStr = [u |-> "K", v |-> 4]

\* a step in which a live interval started a tick
TimerStartedTick == started /\ calls' = calls + 1 /\ timers' # timers

\* C16: pressing 'p' enters a Paused state in which the periodic timer starts
\* no new tick: the step after the key press is never a tick started by the
\* timer.
C16_PauseSuspendsTimer ==
  [][(ev.type = "key" /\ ev.key = "p") => ~TimerStartedTick]_vars

\* C17: loadSettings merges the persisted object over the defaults: every key
\* of the file has the file's value, every default key the file lacks has
\* its default, and a missing or unparsable file gives exactly the defaults.
C17_MergedOverDefaults ==
  calc.phase = "loaded" =>
     IF calc.file = NULL THEN calc.result = DEFAULT_SETTINGS
     ELSE LET file == Val(calc.file)
          IN /\ DOMAIN calc.result = DOMAIN DEFAULT_SETTINGS \cup DOMAIN file
             /\ \A key \in DOMAIN file : calc.result[key] = file[key]
             /\ \A key \in DOMAIN DEFAULT_SETTINGS \ DOMAIN file :
                   calc.result[key] = DEFAULT_SETTINGS[key]

\* a file that switches the network off and says nothing about the interval
C17_Witness ==
  /\ calc.phase = "loaded" /\ calc.file # NULL
  /\ DOMAIN Val(calc.file) = {"showNetwork", "theme"}
  /\ calc.result.showNetwork = FALSE
  /\ calc.result.refreshInterval = 2000
  /\ calc.result.theme = "solarized"

\* C18: toggling the refresh interval cycles 1 s, 2 s, 5 s, 10 s and back:
\* from any stored value (a string or a number outside the cycle included)
\* every toggle leaves a member of {1000, 2000, 5000, 10000}, a member is
\* followed by the next member of the cycle, and from a member four toggles
\* return to it.
C18_IntervalCycle ==
  calc.phase = "interval" =>
     LET seen == calc.seen
         start == NumberOf(calc.raw)
         Cycle == {1000, 2000, 5000, 10000}
         After(m) == CASE m = 1000 -> 2000 [] m = 2000 -> 5000
                       [] m = 5000 -> 10000 [] m = 10000 -> 1000
     IN /\ \A i \in 1..Len(seen) : seen[i] \in Cycle
        /\ \A i \in 2..Len(seen) : seen[i] = After(seen[i - 1])
        /\ (start # NULL /\ Len(seen) >= 1) =>
              (Val(start) \in Cycle => seen[1] = After(Val(start)))
        /\ (start # NULL /\ Len(seen) >= 4) =>
              (Val(start) \in Cycle => seen[4] = Val(start))

\* the file held the string "5000": four toggles give 10 s, 1 s, 2 s, 5 s
C18_Witness ==
  /\ calc.phase = "interval"
  /\ calc.raw = [t |-> "string", chars |-> <<"5", "0", "0", "0">>]
  /\ calc.seen = <<10000, 1000, 2000, 5000>>

\* C19: the fetches of one tick are issued together: a tick in flight has
\* started its status and log fetches (sources no setting switches off)
\* whatever it is still waiting for.
C19_IssuedTogether ==
  \A t \in 1..Len(ticks) : {"status", "logs"} \subseteq Issued(ticks[t].pc)

\* C20: the network rate follows the rule of the token rate: a network query
\* that answered stores no rate when there is no earlier sample, when the
\* earlier sample is less than the minimum interval old, or when the rx
\* counter did not grow.
C20_NetRateLikeTokenRate ==
  (ev.type = "fetched" /\ ev.source = "network" /\ ev.outcome = "ok") =>
     LET sample == Val(ev.sample)
     IN (\/ ~sample.hadPrev
         \/ sample.ms < MinElapsedMs
         \/ sample.rxGrowth <= 0) => ~sample.rated

\* C21: the first answered network query finds no stored sample: it derives
\* no rxSec/txSec (data.network stays null), pushes nothing to the netRx and
\* netTx histories, and stores the counters and the time for the next tick.
C21_FirstSampleNoRate ==
  [][(/\ lastNetStats = NULL
      /\ ev'.type = "fetched" /\ ev'.source = "network" /\ ev'.outcome = "ok")
     => (/\ data'.network = NULL
         /\ history' = history /\ pushed' = pushed /\ pushed.netRx = <<>>
         /\ lastNetStats' # NULL
         /\ Val(lastNetStats').rx_bytes = Val(ev'.sample).rx_bytes
         /\ Val(lastNetStats').tx_bytes = Val(ev'.sample).tx_bytes
         /\ lastNetTime' = Some(clock))]_vars

\* the first answered network query has just stored its counters
C21_Witness ==
  /\ ev.type = "fetched" /\ ev.source = "network" /\ ev.outcome = "ok"
  /\ ~Val(ev.sample).hadPrev
  /\ lastNetStats # NULL /\ data.network = NULL /\ pushed.netRx = <<>>

\* C22: every tick pushes its CPU average and memory percent into the
\* histories exactly once, whatever else fails in it, and the histories
\* advance only with a committed snapshot: a tick that commits has pushed
\* once, a tick that is aborted has pushed nothing.
C22_HistoryWithCommit ==
  /\ ev.type = "commit" => ev.pushes = 1
  /\ ev.type = "abort" => ev.pushes = 0

\* C23: the commit stores a deep copy: what this.prev reads as changes only
\* in a commit step, whatever the sampling steps write into this.data in
\* between (the per-session objects of sessionTPS included).
C23_PrevDecoupled ==
  [][ev'.type # "commit" => Deref(prev', data') = Deref(prev, data)]_vars

\* after a commit, a status step has rewritten the per-session rate object
C23_Witness ==
  /\ prev # NULL
  /\ ev.type = "fetched" /\ ev.source = "status"
  /\ data.sessionTPS # Val(prev).sessionTPS
  /\ Deref(prev, data) = Some([f \in DOMAIN data |-> Val(prev)[f]])

\* C24: getMacGPU never discards a partial reading: when a model, a
\* utilization or a frequency was obtained it returns a reading that carries
\* what was obtained (null for the rest), and it returns null only when
\* nothing was obtained.
C24_PartialReadingKept ==
  calc.phase = "gpu-done" =>
    IF \E f \in {"model", "utilization", "frequency"} : calc.obtained[f] # NULL
    THEN /\ calc.result # NULL
         /\ Some(Val(calc.result).model) = calc.obtained.model
         /\ Val(calc.result).utilization = calc.obtained.utilization
         /\ Val(calc.result).frequency = calc.obtained.frequency
    ELSE calc.result = NULL

\* C25: getLatestVersion always completes: once the request is made, the
\* promise is eventually resolved whatever the server does (valid JSON,
\* malformed body, connection error, no response within the 3 s timeout),
\* and on each failure outcome it is resolved with null.
C25_AlwaysResolves ==
  /\ (calc.phase = "request") ~> (calc.phase \in {"resolved", "finished"})
  /\ []((/\ calc.phase = "resolved"
          /\ \/ calc.server # "answers"
             \/ ParseJson(calc.body).k = "fail") => calc.result = NULL)

\* C26: at most one refresh timer is live: while the process runs, the live
\* intervals are exactly the one stored in this.timer (none before start()
\* and before any interval change), its period is settings.refreshInterval,
\* and after quitting no interval is left.
C26_OneTimer ==
  /\ alive =>
       /\ Cardinality(timers) <= 1
       /\ \A tm \in timers :
            Some(tm.id) = timer /\ tm.period = settings.refreshInterval
       /\ started => timers # {}
  /\ ev.type = "quit" => timers = {}

\* C27: this.lastTime never decreases: under any interleaving of timer and
\* manual refresh() calls, no step sets lastTime to a value below the one it
\* had.
C27_LastTimeMonotone == [][lastTime' >= lastTime]_vars

\* C28: in every committed snapshot a displayed session is marked active
\* only if this tick computed a rate for it from a positive token delta; an
\* entry left active before a status failure is not active in the first
\* successful tick after the failure.
C28_ActiveOnlyWhenRated ==
  Committed =>
    \A i \in 1..Len(Val(prev).sessions) :
      LET key == Val(prev).sessions[i].key
          tps == Val(prev).sessionTPS[key]
      IN (tps # NULL /\ Val(tps).active) => key \in ev.rated

\* C29: a network rate is derived only from two samples of the same
\* interface: when the interface of this tick is not the one the stored
\* counters were read from, the step stores no rate.
C29_SameInterface ==
  (ev.type = "fetched" /\ ev.source = "network" /\ ev.outcome = "ok") =>
     LET sample == Val(ev.sample)
     IN (sample.hadPrev /\ sample.prevIface # sample.iface) => ~sample.rated

\* C30: calcTPS returns null or a strictly positive number for all inputs,
\* a positive token delta over a long interval included, so that no session
\* is recorded as active with the value 0.
C30_NullOrPositive ==
  CalcDone => (calc.result = NULL \/ Val(calc.result) > 0)
====
